---------------------------- MODULE Spec2Model ----------------------------
(***************************************************************************)
(* A model of GameRenderer (rwengine/src/render/GameRenderer.cpp): one     *)
(* renderWorld call walks the pedestrians, the instances and the vehicles  *)
(* (with their wheels), replays the deferred transparent draws, then draws *)
(* the water grids and the sky dome.                                       *)
(*                                                                         *)
(* The world is laid out on one axis.  A matrix is the translation it      *)
(* carries along that axis (rotation and scale play no part in any         *)
(* decision of the renderer), so a product of matrices is a sum and an     *)
(* inverse a negation.  The camera looks towards decreasing coordinates.   *)
(* Indices are 0-based as in the source (At0).                             *)
(***************************************************************************)
EXTENDS Integers, Sequences, FiniteSets, TLC

(***************************************************************************)
(* Bounds of the model.                                                    *)
(***************************************************************************)
\* The camera stands at 0, 10, ..., 10 * MaxCam.
MaxCam == 4
\* The water grids.  The program's values are set in a header that is not
\* part of the source at hand; the model uses a small world.
WATER_WORLD_SIZE == 16
WATER_HQ_DATA_SIZE == 4
WATER_LQ_DATA_SIZE == 2
WATER_HQ_DISTANCE == 4
NO_WATER_INDEX == 2

CamPositions == {10 * k : k \in 0..MaxCam}
Hours == {2, 12, 22}

(***************************************************************************)
(* Small helpers.                                                          *)
(***************************************************************************)
At0(seq, i) == seq[i + 1]

Abs(x) == IF x < 0 THEN -x ELSE x

Min(a, b) == IF a < b THEN a ELSE b

RECURSIVE Gcd(_, _)
Gcd(a, b) == IF b = 0 THEN a ELSE Gcd(b, a % b)

\* A float in [0, 1] as a fraction in lowest terms.
Frac(n, d) == <<n \div Gcd(n, d), d \div Gcd(n, d)>>

\* glUniform4f(uniCol, 1.f, 1.f, 1.f, 1.f)
White == <<Frac(1, 1), Frac(1, 1), Frac(1, 1)>>

\* col.r/255.f, col.g/255.f, col.b/255.f
ByteColour(col) == <<Frac(col[1], 255), Frac(col[2], 255), Frac(col[3], 255)>>

\* glm::mat4 and the operations the renderer applies to it.
IdentityMatrix == 0
MatMul(a, b) == a + b
MatInverse(a) == 0 - a
MatTranslate(m, v) == m + v
MatColumn3(m) == m

NULL == "nullptr"

\* No index: a null pointer to an element of a list, or a failed search.
NoIndex == 0 - 1

(***************************************************************************)
(* The assets: textures and models.                                        *)
(***************************************************************************)
\* engine->gameData.textures: name -> TextureInfo.  "nope" is not cached.
Textures ==
  [n \in {"brick", "skin", "paint", "glass", "water_old"} |->
     [texName |-> n, transparent |-> (n = "glass")]]

Mat(textures, colour, flags) ==
  [textures |-> textures, colour |-> colour, flags |-> flags]

Geom(center, radius, flags, materials, subgeom) ==
  [center |-> center, radius |-> radius, flags |-> flags,
   materials |-> materials, subgeom |-> subgeom]

Frame(name, transform, geometries, children) ==
  [name |-> name, transform |-> transform, geometries |-> geometries,
   children |-> children]

MBrick == Mat(<<"brick">>, <<200, 100, 50>>, {})
MSkin == Mat(<<"skin">>, <<255, 204, 153>>, {})
MWindow == Mat(<<"glass">>, <<51, 102, 255>>, {})
MPlain == Mat(<<>>, <<255, 255, 255>>, {})
MLost == Mat(<<"nope">>, <<0, 255, 0>>, {})
MBody == Mat(<<"paint">>, <<60, 60, 60>>, {"MTF_PrimaryColour"})
MTrim == Mat(<<"paint">>, <<90, 90, 90>>, {"MTF_SecondaryColour"})
MTinted == Mat(<<"glass">>, <<0, 0, 102>>, {"MTF_PrimaryColour"})

MMC == {"ModuleMaterialColor"}

Models ==
  [ped |->
     [frames |-> << Frame("root", 0, <<0>>, <<1>>),
                    Frame("head", 3, <<1>>, <<>>) >>,
      geometries |-> << Geom(0, 1, MMC, <<MSkin>>, <<0>>),
                        Geom(0, 1, {}, <<MWindow, MLost>>, <<0, 1, 5>>) >>,
      rootFrameIdx |-> 0],
   house |->
     [frames |-> << Frame("root", 0, <<0>>, <<>>) >>,
      geometries |-> << Geom(0, 2, MMC, <<MBrick, MWindow>>, <<0, 1>>) >>,
      rootFrameIdx |-> 0],
   houseLOD |->
     [frames |-> << Frame("root", 0, <<0>>, <<>>) >>,
      geometries |-> << Geom(0, 2, MMC, <<MLost>>, <<0>>) >>,
      rootFrameIdx |-> 0],
   shed |->
     [frames |-> << Frame("root", 0, <<0>>, <<>>) >>,
      geometries |-> << Geom(4, 1, {}, <<MPlain>>, <<0>>) >>,
      rootFrameIdx |-> 0],
   tower |->
     [frames |-> << Frame("root", 0, <<>>, <<1, 2, 3>>),
                    Frame("base", 1, <<0>>, <<>>),
                    Frame("far", 2, <<1>>, <<>>),
                    Frame("near", 0, <<2>>, <<4>>),
                    Frame("mast", 1, <<3>>, <<>>) >>,
      geometries |-> << Geom(0, 5, {}, <<MPlain>>, <<0>>),
                        Geom(0, 5, MMC, <<MBrick>>, <<0>>),
                        Geom(0, 5, MMC, <<MBrick, MWindow>>, <<0, 1>>),
                        Geom(0, 5, {}, <<MWindow>>, <<0>>) >>,
      rootFrameIdx |-> 0],
   car |->
     [frames |-> << Frame("root", 0, <<>>, <<1, 2>>),
                    Frame("car_lo", 0, <<0>>, <<>>),
                    Frame("car_hi", 0, <<1, 2>>, <<>>) >>,
      geometries |-> << Geom(0, 2, MMC, <<MBody>>, <<0>>),
                        Geom(0, 2, MMC, <<MBody, MTrim, MTinted, MWindow>>,
                             <<0, 1, 2, 3>>),
                        Geom(0, 2, {}, <<MWindow>>, <<0>>) >>,
      rootFrameIdx |-> 0],
   wheels |->
     [frames |-> << Frame("root", 0, <<>>, <<1>>),
                    Frame("wheel", 0, <<>>, <<2>>),
                    Frame("wheel_l0", 0, <<0>>, <<>>) >>,
      geometries |-> << Geom(0, 1, {}, <<MPlain>>, <<0>>) >>,
      rootFrameIdx |-> 0]]

ModelNames == DOMAIN Models

\* The models whose asset may still be missing when a frame is drawn.
Loadable == {"ped", "house", "houseLOD", "car", "wheels"}


(***************************************************************************)
(* The world: engine->pedestrians, engine->objectInstances and             *)
(* engine->vehicleInstances, in their stored order.                        *)
(***************************************************************************)
\* GameObject as the traversal sees it: type(), animator, isFrameVisible.
\* sway is the offset the animator's pose adds per unit of interpolation.
GameObjects ==
  [ped1 |-> [type |-> "Character", animator |-> TRUE, sway |-> 1,
             hidden |-> {}],
   ped2 |-> [type |-> "Character", animator |-> FALSE, sway |-> 0,
             hidden |-> {0}],
   car1 |-> [type |-> "Vehicle", animator |-> FALSE, sway |-> 0,
             hidden |-> {},
             colourPrimary |-> <<Frac(1, 2), Frac(0, 1), Frac(0, 1)>>,
             colourSecondary |-> <<Frac(0, 1), Frac(1, 4), Frac(0, 1)>>]]

pedestrians ==
  << [id |-> "ped1", position |-> 0, model |-> "ped"],
     [id |-> "ped2", position |-> 0 - 5, model |-> "ped"] >>

ObjectData(numClumps, drawDistance, LOD, timeOn, timeOff) ==
  [numClumps |-> numClumps, drawDistance |-> drawDistance, LOD |-> LOD,
   timeOn |-> timeOn, timeOff |-> timeOff]

\* LODinstance is the index of the linked lower-detail instance, or NoIndex.
objectInstances ==
  << [object |-> ObjectData(1, <<8, 0>>, FALSE, 0, 0), model |-> "house",
      position |-> 0, body |-> FALSE, LODinstance |-> 1],
     [object |-> ObjectData(1, <<28, 0>>, TRUE, 0, 0), model |-> "houseLOD",
      position |-> 0, body |-> FALSE, LODinstance |-> NoIndex],
     [object |-> ObjectData(1, <<5, 0>>, FALSE, 0, 0), model |-> "shed",
      position |-> 0, body |-> FALSE, LODinstance |-> NoIndex],
     [object |-> ObjectData(2, <<5, 25>>, FALSE, 0, 0), model |-> "tower",
      position |-> 0, body |-> TRUE, LODinstance |-> NoIndex],
     [object |-> ObjectData(1, <<100, 0>>, FALSE, 20, 6), model |-> "shed",
      position |-> 0, body |-> FALSE, LODinstance |-> NoIndex],
     [object |-> ObjectData(1, <<100, 0>>, FALSE, 6, 20), model |-> "shed",
      position |-> 0, body |-> FALSE, LODinstance |-> NoIndex] >>

\* wheels: the world transform the physics reports for each wheel.
vehicleInstances ==
  << [id |-> "car1", position |-> 0, model |-> "car",
      drawDistance |-> <<20, 50>>,
      wheelModelID |-> 7, wheels |-> <<0 - 1, 1>>] >>

\* engine->objectTypes: model id -> object data (only the name is read).
objectTypes == [id \in {7} |-> [modelName |-> "wheel"]]

\* weatherLoader.getWeatherData(Sunny, tod / 60).farClipping
WeatherFarClipping(h) == IF h = 2 THEN 5 ELSE IF h = 12 THEN 100 ELSE 40

\* The interpolation fractions renderWorld is called with.
Alphas == {0, 1}

(***************************************************************************)
(* External collaborators, modelled from their contract.                   *)
(***************************************************************************)
\* Frustum::update: the near plane at the camera, the far plane `far' ahead.
FrustumUpdate(pos, far) == [lo |-> pos - far, hi |-> pos]

\* Frustum::intersects: false iff the sphere lies entirely outside a plane.
FrustumIntersects(planes, center, radius) ==
  /\ center + radius >= planes.lo
  /\ center - radius <= planes.hi

\* Animator::getFrameMatrix(f, alpha, fixed)
GetFrameMatrix(object, m, f, alpha) ==
  At0(Models[m].frames, f).transform + alpha * GameObjects[object].sway

\* GameObject::isFrameVisible(f)
IsFrameVisible(object, f) == f \notin GameObjects[object].hidden

\* The default of renderSubgeometry's queueTransparent parameter.
QueueTransparentDefault == TRUE


(***************************************************************************)
(* The state.                                                              *)
(***************************************************************************)
VARIABLES
  pc,                   \* where renderWorld stands; "idle" between calls
  idx,                  \* the loop index of the running loop
  camPos,               \* camera.worldPos
  hour,                 \* engine->getHour(), and the time of day of the weather
  loaded,               \* the models whose asset is loaded (handle->model set)
  renderAlpha,          \* _renderAlpha
  frustum,              \* camera.frustum: [far, planes]
  uniCol,               \* the BaseColour uniform
  boundTex,             \* the texture bound to GL_TEXTURE_2D
  transparentDrawQueue, \* the deferred draws
  rendered, culled,     \* the frame's counters
  \* What the frame did, kept for the properties (cleared when a frame begins):
  drawLog,              \* every glDrawElements of a subgeometry, in order
  rejectLog,            \* every draw renderSubgeometry rejected, in order
  visitLog,             \* every renderFrame call, in order
  chunkLog,             \* every frustum test of a geometry chunk, in order
  cullLog,              \* every culled++, in order
  skipLog,              \* every skip by distance or frustum, in order
  waterLog,             \* the tiles drawn: [hq, lq], each a set of <<x, y>>
  stepLog,              \* the steps of the frame, in order
  lastStats,            \* <<rendered, culled>> as the previous call left them, or <<>>
  dirty                 \* the world or the fraction changed since that call

vars == <<pc, idx, camPos, hour, loaded, renderAlpha, frustum, uniCol,
          boundTex, transparentDrawQueue, rendered, culled, drawLog,
          rejectLog, visitLog, chunkLog, cullLog, skipLog, waterLog,
          stepLog, lastStats, dirty>>

\* The renderer's mutable state as one value the operations thread through.
\* src names the object of the running loop iteration, pass the phase.
Cur(src, pass) ==
  [uniCol |-> uniCol, boundTex |-> boundTex,
   transparentDrawQueue |-> transparentDrawQueue,
   rendered |-> rendered, culled |-> culled,
   drawLog |-> drawLog, rejectLog |-> rejectLog, visitLog |-> visitLog,
   chunkLog |-> chunkLog, cullLog |-> cullLog, skipLog |-> skipLog,
   src |-> src, pass |-> pass]

Commit(s) ==
  /\ uniCol' = s.uniCol
  /\ boundTex' = s.boundTex
  /\ transparentDrawQueue' = s.transparentDrawQueue
  /\ rendered' = s.rendered
  /\ culled' = s.culled
  /\ drawLog' = s.drawLog
  /\ rejectLog' = s.rejectLog
  /\ visitLog' = s.visitLog
  /\ chunkLog' = s.chunkLog
  /\ cullLog' = s.cullLog
  /\ skipLog' = s.skipLog

\* handle->model: the Model, or NULL while the asset is not loaded.
ModelOf(name) == IF name \in loaded \/ name \notin Loadable THEN name ELSE NULL

DrawCall(model, g, sg, matrix, object) ==
  [model |-> model, g |-> g, sg |-> sg, matrix |-> matrix, object |-> object]

\* The source of what happens outside the three loops.
NoSource == <<"none", 0>>

\* F applied to the value of s, which is worked out once.
With(s, F(_)) == CHOOSE r \in {F(t) : t \in {s}} : TRUE

\* culled++
CountCulled(s, why) ==
  With(s, LAMBDA t :
    [t EXCEPT !.culled = @ + 1,
              !.cullLog = Append(@, [src |-> t.src, why |-> why]),
              !.skipLog = Append(@, [src |-> t.src, why |-> why])])

\* A skip that leaves the counter alone.
NoteSkip(s, why) ==
  With(s, LAMBDA t :
    [t EXCEPT !.skipLog = Append(@, [src |-> t.src, why |-> why])])

(***************************************************************************)
(* renderSubgeometry                                                       *)
(***************************************************************************)
\* A colour selection that takes the secondary colour for the primary flag
\* and the primary colour for the secondary flag.
MaterialColourSwapped(uniColNow, geom, mat, object) ==
  IF "ModuleMaterialColor" \in geom.flags
  THEN IF object # NULL /\ GameObjects[object].type = "Vehicle"
       THEN IF "MTF_PrimaryColour" \in mat.flags
            THEN GameObjects[object].colourSecondary
            ELSE IF "MTF_SecondaryColour" \in mat.flags
                 THEN GameObjects[object].colourPrimary
                 ELSE ByteColour(mat.colour)
       ELSE ByteColour(mat.colour)
  ELSE uniColNow

\* The colour selection of renderSubgeometry: the new value of BaseColour.
MaterialColour(uniColNow, geom, mat, object) ==
  IF "ModuleMaterialColor" \in geom.flags
  THEN IF object # NULL /\ GameObjects[object].type = "Vehicle"
       THEN IF "MTF_PrimaryColour" \in mat.flags
            THEN GameObjects[object].colourPrimary
            ELSE IF "MTF_SecondaryColour" \in mat.flags
                 THEN GameObjects[object].colourSecondary
                 ELSE ByteColour(mat.colour)
       ELSE ByteColour(mat.colour)
  ELSE uniColNow

\* A draw that is made and not counted.
IssueDrawUncounted(s, texWas, model, g, sg, matrix, object) ==
  With(s, LAMBDA t :
    [t EXCEPT !.drawLog = Append(@,
                 [src |-> t.src, pass |-> t.pass, model |-> model, g |-> g,
                  sg |-> sg, matrix |-> matrix, object |-> object,
                  tint |-> t.uniCol, tex |-> t.boundTex,
                  texWas |-> texWas])])

\* rendered++ and glDrawElements.  texWas is the texture that was bound when
\* renderSubgeometry was entered, kept for the properties.
IssueDraw(s, texWas, model, g, sg, matrix, object) ==
  With(s, LAMBDA t :
    [t EXCEPT !.rendered = @ + 1,
              !.drawLog = Append(@,
                 [src |-> t.src, pass |-> t.pass, model |-> model, g |-> g,
                  sg |-> sg, matrix |-> matrix, object |-> object,
                  tint |-> t.uniCol, tex |-> t.boundTex,
                  texWas |-> texWas])])

\* glBindTexture(GL_TEXTURE_2D, tex.texName)
BindTexture(s, tex) == [s EXCEPT !.boundTex = tex.texName]

\* A lookup that makes the entry it does not find, as the map's operator[]
\* would.
LookupTextureMade(name) ==
  IF name \in DOMAIN Textures
  THEN [found |-> TRUE, tex |-> Textures[name]]
  ELSE [found |-> TRUE, tex |-> [texName |-> "", transparent |-> FALSE]]

\* engine->gameData.textures.find(name) and its comparison with end()
LookupTexture(name) ==
  IF name \in DOMAIN Textures
  THEN [found |-> TRUE, tex |-> Textures[name]]
  ELSE [found |-> FALSE, tex |-> [texName |-> "", transparent |-> FALSE]]

\* A rejection that takes no notice of queueTransparent.
RejectedAlways(found, tex, queueTransparent) == found /\ tex.transparent

\* The draw is rejected: tex.transparent && queueTransparent, for a texture
\* that was found.
Rejected(found, tex, queueTransparent) ==
  found /\ tex.transparent /\ queueTransparent

\* [ret |-> the value returned, s |-> the state left]
RenderSubgeometry(s, model, g, sg, matrix, object, queueTransparent) ==
  LET geom == At0(Models[model].geometries, g)
      subgeom == At0(geom.subgeom, sg)
      hasMat == Len(geom.materials) > subgeom
      mat == At0(geom.materials, subgeom)
      t0 == LookupTexture(At0(mat.textures, 0))
      found == hasMat /\ Len(mat.textures) > 0 /\ t0.found
      tex == t0.tex
  IN With(s, LAMBDA t :
       IF Rejected(found, tex, queueTransparent)
       THEN [ret |-> FALSE,
             s |-> [t EXCEPT !.rejectLog =
                      Append(@, DrawCall(model, g, sg, matrix, object))]]
       ELSE [ret |-> TRUE,
             s |-> IssueDraw(
                     With(IF found THEN BindTexture(t, tex) ELSE t,
                          LAMBDA t1 :
                            IF hasMat
                            THEN [t1 EXCEPT !.uniCol =
                                    MaterialColour(t1.uniCol, geom, mat, object)]
                            ELSE t1),
                     t.boundTex, model, g, sg, matrix, object)])

(***************************************************************************)
(* renderGeometry                                                          *)
(***************************************************************************)
\* A renderGeometry that forgets the rejected draw.
QueueDrawLost(s, dc) == s

\* A renderGeometry that puts the rejected draw at the head of the queue.
QueueDrawFront(s, dc) ==
  [s EXCEPT !.transparentDrawQueue = <<dc>> \o @]

\* transparentDrawQueue.push_back({model, g, sg, modelMatrix, object})
QueueDraw(s, dc) ==
  [s EXCEPT !.transparentDrawQueue = Append(@, dc)]

\* One pass of the loop over the subgeometries.
SubgeomStep(s, model, g, sg, modelMatrix, object) ==
  With(RenderSubgeometry(s, model, g, sg, modelMatrix, object,
                         QueueTransparentDefault),
       LAMBDA r :
         IF ~r.ret
         THEN QueueDraw(r.s, DrawCall(model, g, sg, modelMatrix, object))
         ELSE r.s)

RECURSIVE SubgeomLoop(_, _, _, _, _, _)
SubgeomLoop(s, model, g, sg, modelMatrix, object) ==
  IF sg >= Len(At0(Models[model].geometries, g).subgeom)
  THEN s
  ELSE SubgeomLoop(SubgeomStep(s, model, g, sg, modelMatrix, object),
                   model, g, sg + 1, modelMatrix, object)

RenderGeometry(s, model, g, modelMatrix, object) ==
  SubgeomLoop([s EXCEPT !.uniCol = White], model, g, 0, modelMatrix, object)

\* The draws made so far: issued or queued.
Produced(s) == Len(s.drawLog) + Len(s.rejectLog)

\* The record of one frustum test of a chunk, for the properties.
ChunkEntry(t, by, m, f, g, tested, world, passed, after) ==
  [src |-> t.src, model |-> m, frame |-> f, g |-> g, tested |-> tested,
   world |-> world, radius |-> At0(Models[m].geometries, g).radius,
   passed |-> passed, by |-> by, produced |-> Produced(after) - Produced(t)]

LogChunk(s, entry) == [s EXCEPT !.chunkLog = Append(@, entry)]

(***************************************************************************)
(* renderFrame and renderModel.  renderFrame's queueTransparent parameter  *)
(* is only handed on to the recursive call and is left out.                *)
(***************************************************************************)
\* The test of one chunk of a frame and, when it passes, its draw.
FrameChunk(s, m, f, g, matrix, localmatrix, object) ==
  LET geom == At0(Models[m].geometries, g)
      tested == geom.center + MatColumn3(matrix)
      world == geom.center + MatColumn3(localmatrix)
  IN With(s, LAMBDA t :
       IF ~FrustumIntersects(frustum.planes, tested, geom.radius)
       THEN LogChunk(NoteSkip(t, "frustum"),
                     ChunkEntry(t, "renderFrame", m, f, g, tested, world,
                                FALSE, t))
       ELSE With(RenderGeometry(
                   IF "ModuleMaterialColor" \notin geom.flags
                   THEN [t EXCEPT !.uniCol = White]
                   ELSE t,
                   m, g, localmatrix, object),
                 LAMBDA t2 :
                   LogChunk(t2, ChunkEntry(t, "renderFrame", m, f, g, tested,
                                           world, TRUE, t2))))

\* A geometry loop that takes no notice of the frame being hidden.
RECURSIVE FrameGeometriesAll(_, _, _, _, _, _, _, _)
FrameGeometriesAll(s, m, f, k, matrix, localmatrix, object, vis) ==
  LET geometries == At0(Models[m].frames, f).geometries
  IN IF k >= Len(geometries)
     THEN s
     ELSE FrameGeometriesAll(
            FrameChunk(s, m, f, At0(geometries, k), matrix, localmatrix,
                       object),
            m, f, k + 1, matrix, localmatrix, object, vis)

RECURSIVE FrameGeometries(_, _, _, _, _, _, _, _)
FrameGeometries(s, m, f, k, matrix, localmatrix, object, vis) ==
  LET geometries == At0(Models[m].frames, f).geometries
  IN IF k >= Len(geometries)
     THEN s
     ELSE FrameGeometries(
            IF ~vis
            THEN s
            ELSE FrameChunk(s, m, f, At0(geometries, k), matrix, localmatrix,
                            object),
            m, f, k + 1, matrix, localmatrix, object, vis)

\* The record of one renderFrame call, for the properties.
LogVisit(s, m, f, matrix, localmatrix, vis) ==
  With(s, LAMBDA t :
    [t EXCEPT !.visitLog =
       Append(@, [src |-> t.src, model |-> m, frame |-> f,
                  matrix |-> matrix, localmatrix |-> localmatrix,
                  vis |-> vis])])

RECURSIVE RenderFrame(_, _, _, _, _)
RECURSIVE FrameChildren(_, _, _, _, _, _)

\* A children loop that runs from the last child to the first.
RECURSIVE FrameChildrenBackward(_, _, _, _, _, _)
FrameChildrenBackward(s, m, f, k, localmatrix, object) ==
  LET children == At0(Models[m].frames, f).children
  IN IF k >= Len(children)
     THEN s
     ELSE FrameChildrenBackward(
            RenderFrame(s, m, At0(children, (Len(children) - 1) - k),
                        localmatrix, object),
            m, f, k + 1, localmatrix, object)

RenderFrame(s, m, f, matrix, object) ==
  LET frame == At0(Models[m].frames, f)
      localmatrix ==
        IF object # NULL /\ GameObjects[object].animator
        THEN MatMul(matrix, GetFrameMatrix(object, m, f, renderAlpha))
        ELSE MatMul(matrix, frame.transform)
      vis == object = NULL \/ IsFrameVisible(object, f)
  IN FrameChildren(
       FrameGeometries(LogVisit(s, m, f, matrix, localmatrix, vis),
                       m, f, 0, matrix, localmatrix, object, vis),
       m, f, 0, localmatrix, object)

FrameChildren(s, m, f, k, localmatrix, object) ==
  LET children == At0(Models[m].frames, f).children
  IN IF k >= Len(children)
     THEN s
     ELSE FrameChildren(RenderFrame(s, m, At0(children, k), localmatrix, object),
                        m, f, k + 1, localmatrix, object)

RenderModel(s, model, modelMatrix, object) ==
  RenderFrame(s, model, Models[model].rootFrameIdx, modelMatrix, object)

(***************************************************************************)
(* renderWheel                                                             *)
(***************************************************************************)
\* The index of the first frame of the model named `name', or NoIndex.
RECURSIVE FindFrame(_, _, _)
FindFrame(model, name, k) ==
  IF k >= Len(Models[model].frames)
  THEN NoIndex
  ELSE IF At0(Models[model].frames, k).name = name
       THEN k
       ELSE FindFrame(model, name, k + 1)

\* The test of one chunk of the wheel and, when it passes, its draw.
WheelChunk(s, model, f, g, matrix) ==
  LET geom == At0(Models[model].geometries, g)
      tested == geom.center + MatColumn3(matrix)
  IN With(s, LAMBDA t :
       IF ~FrustumIntersects(frustum.planes, tested, geom.radius)
       THEN LogChunk(CountCulled(t, "frustum"),
                     ChunkEntry(t, "renderWheel", model, f, g, tested, tested,
                                FALSE, t))
       ELSE With(RenderGeometry(t, model, g, matrix, NULL),
                 LAMBDA t2 :
                   LogChunk(t2, ChunkEntry(t, "renderWheel", model, f, g,
                                           tested, tested, TRUE, t2))))

RECURSIVE WheelGeometries(_, _, _, _, _)
WheelGeometries(s, model, firstLod, k, matrix) ==
  LET geometries == At0(Models[model].frames, firstLod).geometries
  IN IF k >= Len(geometries)
     THEN s
     ELSE WheelGeometries(
            WheelChunk(s, model, firstLod, At0(geometries, k), matrix),
            model, firstLod, k + 1, matrix)

RenderWheel(s, model, matrix, name) ==
  LET f == FindFrame(model, name, 0)
  IN IF f = NoIndex
     THEN s
     ELSE WheelGeometries(s, model,
                          At0(At0(Models[model].frames, f).children, 0),
                          0, matrix)

(***************************************************************************)
(* renderWorld: the body of each loop.                                     *)
(***************************************************************************)
\* The pedestrian loop's body.
RenderPedestrian(s, i) ==
  LET charac == At0(pedestrians, i)
      matrixModel == MatTranslate(IdentityMatrix, charac.position)
  IN IF ModelOf(charac.model) = NULL
     THEN s
     ELSE RenderModel(s, charac.model, matrixModel, charac.id)

RECURSIVE MinDistLoop(_, _, _, _)
MinDistLoop(mindist, model, matrixModel, g) ==
  IF g >= Len(Models[model].geometries)
  THEN mindist
  ELSE LET bounds == At0(Models[model].geometries, g)
       IN MinDistLoop(
            Min(mindist,
                Abs((MatColumn3(matrixModel) + bounds.center) - camPos)
                  - bounds.radius),
            model, matrixModel, g + 1)

MinDist(model, matrixModel) == MinDistLoop(100000, model, matrixModel, 0)

\* inst.body->getWorldTransform(), or translate * scale * rotate.
InstanceMatrix(inst) ==
  IF inst.body
  THEN inst.position
  ELSE MatTranslate(IdentityMatrix, inst.position)

\* The instance's active hours: the skip test of the instance loop.
TimeSkipped(inst) ==
  /\ inst.object.timeOn # inst.object.timeOff
  /\ hour < inst.object.timeOn
  /\ hour > inst.object.timeOff

\* A far branch that picks the last child, as the near branch does.
FarLODindexLast(RF) == Len(RF.children) - 1

\* RF->getChildren().size() - 2 and RF->getChildren().size() - 1
FarLODindex(RF) == Len(RF.children) - 2

NearLODindex(RF) == Len(RF.children) - 1

\* renderFrame(model, f, matrixModel * inverse(f->getTransform()), nullptr)
RenderLODFrame(s, model, LODindex, matrixModel) ==
  LET RF == At0(Models[model].frames, 0)
      f == At0(RF.children, LODindex)
  IN RenderFrame(s, model, f,
                 MatMul(matrixModel,
                        MatInverse(At0(Models[model].frames, f).transform)),
                 NULL)

\* A near branch that forgets the flag of a LOD target.
DrawnDirectlyAlways(object) == TRUE

\* The near branch's test: !inst.object->LOD
DrawnDirectly(object) == ~object.LOD

\* The single-clump branch.
RenderSingleClump(s, inst, mindist, matrixModel) ==
  IF mindist > At0(inst.object.drawDistance, 0)
  THEN IF inst.LODinstance # NoIndex
       THEN LET lod == At0(objectInstances, inst.LODinstance)
            IN IF mindist > At0(lod.object.drawDistance, 0)
               THEN CountCulled(s, "lod")
               ELSE IF ModelOf(lod.model) # NULL
                    THEN RenderModel(s, lod.model, matrixModel, NULL)
                    ELSE s
       ELSE NoteSkip(s, "distance")
  ELSE IF DrawnDirectly(inst.object)
       THEN RenderModel(s, inst.model, matrixModel, NULL)
       ELSE s

\* The multi-clump branch.
RenderMultiClump(s, inst, mindist, matrixModel) ==
  LET RF == At0(Models[inst.model].frames, 0)
  IN IF mindist > At0(inst.object.drawDistance, 1)
     THEN CountCulled(s, "distance")
     ELSE IF mindist > At0(inst.object.drawDistance, 0)
          THEN RenderLODFrame(s, inst.model, FarLODindex(RF), matrixModel)
          ELSE RenderLODFrame(s, inst.model, NearLODindex(RF), matrixModel)

\* The instance loop's body.
RenderInstance(s, i) ==
  LET inst == At0(objectInstances, i)
      matrixModel == InstanceMatrix(inst)
      mindist == MinDist(inst.model, matrixModel)
  IN IF TimeSkipped(inst)
     THEN s
     ELSE IF ModelOf(inst.model) = NULL
          THEN s
          ELSE IF inst.object.numClumps = 1
               THEN RenderSingleClump(s, inst, mindist, matrixModel)
               ELSE RenderMultiClump(s, inst, mindist, matrixModel)

\* The wheel loop of one vehicle.
RECURSIVE RenderWheels(_, _, _)
RenderWheels(s, inst, w) ==
  IF w >= Len(inst.wheels)
  THEN s
  ELSE RenderWheels(
         IF inst.wheelModelID \in DOMAIN objectTypes
         THEN IF ModelOf("wheels") # NULL
              THEN RenderWheel(s, "wheels", At0(inst.wheels, w),
                               objectTypes[inst.wheelModelID].modelName)
              ELSE s
         ELSE s,
         inst, w + 1)

\* The vehicle loop's body, for a vehicle whose model is there.
RenderVehicle(s, v) ==
  LET inst == At0(vehicleInstances, v)
      matrixModel == MatTranslate(IdentityMatrix, inst.position)
  IN RenderWheels(RenderModel(s, inst.model, matrixModel, inst.id), inst, 0)

(***************************************************************************)
(* renderWorld: the replay of the deferred draws.                          *)
(***************************************************************************)
\* A replay that leaves BaseColour as the previous draw set it.
ReplayDrawStale(s, it) ==
  RenderSubgeometry(s, it.model, it.g, it.sg, it.matrix, it.object, FALSE).s

\* A replay that leaves queueTransparent at its default.
ReplayDrawDefault(s, it) ==
  RenderSubgeometry([s EXCEPT !.uniCol = White], it.model, it.g, it.sg,
                    it.matrix, it.object, QueueTransparentDefault).s

\* One entry: the matrix and the white tint are set, then the draw is made.
ReplayDraw(s, it) ==
  RenderSubgeometry([s EXCEPT !.uniCol = White], it.model, it.g, it.sg,
                    it.matrix, it.object, FALSE).s

RECURSIVE ReplayLoop(_, _)
ReplayLoop(s, k) ==
  With(s, LAMBDA t :
    IF k >= Len(t.transparentDrawQueue)
    THEN t
    ELSE ReplayLoop(ReplayDraw(t, At0(t.transparentDrawQueue, k)), k + 1))

\* transparentDrawQueue.clear()
ClearQueue(s) == [s EXCEPT !.transparentDrawQueue = <<>>]

FlushQueue(s) == ClearQueue(ReplayLoop(s, 0))


(***************************************************************************)
(* renderWorld: the water.  Lengths are real numbers in the source; here   *)
(* every length is multiplied by WaterScale, which makes the tile sizes    *)
(* and their halves and quarters integers, and a distance is compared      *)
(* through its square.                                                     *)
(***************************************************************************)
WaterScale == 4 * WATER_HQ_DATA_SIZE * WATER_LQ_DATA_SIZE

Sq(x) == x * x

\* WATER_WORLD_SIZE/WATER_HQ_DATA_SIZE and WATER_WORLD_SIZE/WATER_LQ_DATA_SIZE
blockHQSize == 4 * WATER_LQ_DATA_SIZE * WATER_WORLD_SIZE

blockLQSize == 4 * WATER_HQ_DATA_SIZE * WATER_WORLD_SIZE

\* -WATER_WORLD_SIZE/2.f
waterOffset == 0 - ((WATER_WORLD_SIZE * WaterScale) \div 2)

\* engine->gameData.realWater and visibleWater: tile -> height index.
realWater(i) == IF i % 5 = 4 THEN NO_WATER_INDEX ELSE i % 2

visibleWater(i) == IF i % 4 = 3 THEN NO_WATER_INDEX ELSE i % 2

\* cullWS of tile x or y for a block size: waterWS + blockSize / 2
CullWS(block, x) == waterOffset + block * x + (block \div 2)

\* glm::distance(camposFlat, cullWS), squared
DistanceSq(block, x, y) ==
  Sq(CullWS(block, x) - camPos * WaterScale) + Sq(CullWS(block, y))

\* The HQ loop's first test: distance - blockHQSize >= WATER_HQ_DISTANCE
HQTooFar(x, y) ==
  DistanceSq(blockHQSize, x, y)
    >= Sq(WATER_HQ_DISTANCE * WaterScale + blockHQSize)

HQTileDrawn(x, y) ==
  /\ ~HQTooFar(x, y)
  /\ realWater(x * WATER_HQ_DATA_SIZE + y) < NO_WATER_INDEX

\* The LQ loop's tests: distance - blockHQSize/4 < WATER_HQ_DISTANCE, and
\* distance - blockLQSize/2 > camera.frustum.far
LQTooNear(x, y) ==
  DistanceSq(blockLQSize, x, y)
    < Sq(WATER_HQ_DISTANCE * WaterScale + (blockHQSize \div 4))

LQTooFar(x, y) ==
  DistanceSq(blockLQSize, x, y)
    > Sq(frustum.far * WaterScale + (blockLQSize \div 2))

LQTileDrawn(x, y) ==
  /\ ~LQTooNear(x, y)
  /\ ~LQTooFar(x, y)
  /\ visibleWater(x * WATER_LQ_DATA_SIZE + y) < NO_WATER_INDEX

HQTiles == (0..(WATER_HQ_DATA_SIZE - 1)) \X (0..(WATER_HQ_DATA_SIZE - 1))

LQTiles == (0..(WATER_LQ_DATA_SIZE - 1)) \X (0..(WATER_LQ_DATA_SIZE - 1))

NoWater == [hq |-> {}, lq |-> {}, hqSkipped |-> {}, lqSkipped |-> {}]

(***************************************************************************)
(* The actions: the environment between two calls, and renderWorld step by *)
(* step.  Nothing runs beside renderWorld, so the world stands still       *)
(* while pc # "idle".                                                      *)
(***************************************************************************)
RenderState ==
  <<uniCol, boundTex, transparentDrawQueue, rendered, culled, drawLog,
    rejectLog, visitLog, chunkLog, cullLog, skipLog>>

World == <<camPos, hour, loaded>>

Init ==
  /\ pc = "idle"
  /\ idx = 0
  /\ camPos \in CamPositions
  /\ hour \in Hours
  /\ loaded \in SUBSET Loadable
  /\ renderAlpha = 0
  /\ frustum = [far |-> WeatherFarClipping(12),
                planes |-> FrustumUpdate(0, WeatherFarClipping(12))]
  /\ uniCol = White
  /\ boundTex = NULL
  /\ transparentDrawQueue = <<>>
  /\ rendered = 0
  /\ culled = 0
  /\ drawLog = <<>>
  /\ rejectLog = <<>>
  /\ visitLog = <<>>
  /\ chunkLog = <<>>
  /\ cullLog = <<>>
  /\ skipLog = <<>>
  /\ waterLog = NoWater
  /\ stepLog = <<>>
  /\ lastStats = <<>>
  /\ dirty = FALSE

\* The camera moves between two frames.
MoveCamera ==
  /\ pc = "idle"
  /\ \E p \in CamPositions \ {camPos} : camPos' = p
  /\ dirty' = TRUE
  /\ UNCHANGED <<pc, idx, hour, loaded, renderAlpha, frustum, RenderState,
                 waterLog, stepLog, lastStats>>

\* The game time moves on between two frames.
AdvanceTime ==
  /\ pc = "idle"
  /\ \E h \in Hours \ {hour} : hour' = h
  /\ dirty' = TRUE
  /\ UNCHANGED <<pc, idx, camPos, loaded, renderAlpha, frustum, RenderState,
                 waterLog, stepLog, lastStats>>

\* An asset finishes loading between two frames.
LoadModel ==
  /\ pc = "idle"
  /\ \E m \in Loadable \ loaded : loaded' = loaded \cup {m}
  /\ dirty' = TRUE
  /\ UNCHANGED <<pc, idx, camPos, hour, renderAlpha, frustum, RenderState,
                 waterLog, stepLog, lastStats>>

\* A refresh of the planes made before the far clip is set: the planes are
\* cut at the far clip of the previous call.
RefreshFrustumEarly ==
  [far |-> WeatherFarClipping(hour),
   planes |-> FrustumUpdate(camPos, frustum.far)]

\* camera.frustum.far = weather.farClipping, then
\* camera.frustum.update(camera.frustum.projection() * view)
RefreshFrustum ==
  [far |-> WeatherFarClipping(hour),
   planes |-> FrustumUpdate(camPos, WeatherFarClipping(hour))]

\* A renderWorld that leaves the counters of the previous call standing.
KeepCounters(s) == s

\* rendered = culled = 0
ResetCounters(s) == [s EXCEPT !.rendered = 0, !.culled = 0]

\* renderWorld(alpha), up to the first loop: the far clip from the weather,
\* the frustum planes, the counters.
BeginFrame ==
  /\ pc = "idle"
  /\ \E alpha \in Alphas :
       /\ renderAlpha' = alpha
       /\ lastStats' = IF stepLog # <<>> /\ ~dirty /\ alpha = renderAlpha
                       THEN <<rendered, culled>>
                       ELSE <<>>
  /\ frustum' = RefreshFrustum
  /\ LET s == ResetCounters(Cur(NoSource, "setup"))
     IN /\ rendered' = s.rendered
        /\ culled' = s.culled
        /\ transparentDrawQueue' = s.transparentDrawQueue
        /\ uniCol' = s.uniCol
        /\ boundTex' = s.boundTex
  /\ drawLog' = <<>>
  /\ rejectLog' = <<>>
  /\ visitLog' = <<>>
  /\ chunkLog' = <<>>
  /\ cullLog' = <<>>
  /\ skipLog' = <<>>
  /\ waterLog' = NoWater
  /\ stepLog' = <<"begin">>
  /\ dirty' = FALSE
  /\ pc' = "pedestrians"
  /\ idx' = 0
  /\ UNCHANGED World

\* The loop index moves on, or the next phase begins.
Advance(n, next) ==
  IF idx + 1 < n
  THEN /\ pc' = pc
       /\ idx' = idx + 1
  ELSE /\ pc' = next
       /\ idx' = 0

PedestrianStep ==
  /\ pc = "pedestrians"
  /\ Commit(RenderPedestrian(Cur(<<"pedestrian", idx>>, "opaque"), idx))
  /\ Advance(Len(pedestrians), "instances")
  /\ stepLog' = Append(stepLog, "pedestrian")
  /\ UNCHANGED <<World, renderAlpha, frustum, waterLog, lastStats, dirty>>

InstanceStep ==
  /\ pc = "instances"
  /\ Commit(RenderInstance(Cur(<<"instance", idx>>, "opaque"), idx))
  /\ Advance(Len(objectInstances), "vehicles")
  /\ stepLog' = Append(stepLog, "instance")
  /\ UNCHANGED <<World, renderAlpha, frustum, waterLog, lastStats, dirty>>

\* A vehicle whose model is missing is reported and then read all the same:
\* the read of the null pointer ends the program.
VehicleStep ==
  /\ pc = "vehicles"
  /\ IF ModelOf(At0(vehicleInstances, idx).model) = NULL
     THEN /\ pc' = "crashed"
          /\ stepLog' = Append(stepLog, "null model read")
          /\ UNCHANGED <<idx, RenderState>>
     ELSE /\ Commit(RenderVehicle(Cur(<<"vehicle", idx>>, "opaque"), idx))
          /\ Advance(Len(vehicleInstances), "flush")
          /\ stepLog' = Append(stepLog, "vehicle")
  /\ UNCHANGED <<World, renderAlpha, frustum, waterLog, lastStats, dirty>>

FlushStep ==
  /\ pc = "flush"
  /\ Commit(FlushQueue(Cur(NoSource, "flush")))
  /\ pc' = "waterHQ"
  /\ stepLog' = Append(stepLog, "flush")
  /\ UNCHANGED <<idx, World, renderAlpha, frustum, waterLog, lastStats, dirty>>

WaterHQStep ==
  /\ pc = "waterHQ"
  /\ waterLog' = [waterLog EXCEPT
                    !.hq = {t \in HQTiles : HQTileDrawn(t[1], t[2])},
                    !.hqSkipped = {t \in HQTiles : HQTooFar(t[1], t[2])}]
  /\ boundTex' = Textures["water_old"].texName
  /\ pc' = "waterLQ"
  /\ stepLog' = Append(stepLog, "waterHQ")
  /\ UNCHANGED <<idx, World, renderAlpha, frustum, uniCol,
                 transparentDrawQueue, rendered, culled, drawLog, rejectLog,
                 visitLog, chunkLog, cullLog, skipLog, lastStats, dirty>>

WaterLQStep ==
  /\ pc = "waterLQ"
  /\ waterLog' = [waterLog EXCEPT
                    !.lq = {t \in LQTiles : LQTileDrawn(t[1], t[2])},
                    !.lqSkipped = {t \in LQTiles :
                                     LQTooNear(t[1], t[2])
                                       \/ LQTooFar(t[1], t[2])}]
  /\ pc' = "sky"
  /\ stepLog' = Append(stepLog, "waterLQ")
  /\ UNCHANGED <<idx, World, renderAlpha, frustum, RenderState, lastStats,
                 dirty>>

\* The sky dome, and renderWorld returns.
SkyStep ==
  /\ pc = "sky"
  /\ pc' = "idle"
  /\ stepLog' = Append(stepLog, "sky")
  /\ UNCHANGED <<idx, World, renderAlpha, frustum, RenderState, waterLog,
                 lastStats, dirty>>

Next ==
  \/ MoveCamera
  \/ AdvanceTime
  \/ LoadModel
  \/ BeginFrame
  \/ PedestrianStep
  \/ InstanceStep
  \/ VehicleStep
  \/ FlushStep
  \/ WaterHQStep
  \/ WaterLQStep
  \/ SkyStep

Spec == Init /\ [][Next]_vars


(***************************************************************************)
(* What the properties speak of.                                           *)
(***************************************************************************)
Range(seq) == {seq[k] : k \in 1..Len(seq)}

Count(seq, x) == Cardinality({k \in 1..Len(seq) : seq[k] = x})

\* The logs are those of a frame drawn in the world as it stands.
FrameWorld == stepLog # <<>> /\ (pc # "idle" \/ ~dirty)

\* The replay has run in the frame the logs are of.
Flushed == \E k \in 1..Len(stepLog) : stepLog[k] = "flush"

\* The draws of the replay, in order, and each as the DrawCall it draws.
FlushDraws == SelectSeq(drawLog, LAMBDA d : d.pass = "flush")

AsDrawCall(d) == DrawCall(d.model, d.g, d.sg, d.matrix, d.object)

FlushCalls == [k \in 1..Len(FlushDraws) |-> AsDrawCall(FlushDraws[k])]

\* The instances whose loop iteration has run in this frame.
InstancesDone ==
  {i \in 0..(Len(objectInstances) - 1) :
     Cardinality({k \in 1..Len(stepLog) : stepLog[k] = "instance"}) > i}

\* The instance came to the level-of-detail test.
Reached(i) ==
  /\ i \in InstancesDone
  /\ ~TimeSkipped(At0(objectInstances, i))
  /\ ModelOf(At0(objectInstances, i).model) # NULL

\* The smallest of (distance from the camera to a chunk's centre - radius).
ClaimedMindist(i) ==
  LET inst == At0(objectInstances, i)
      ds == {Abs(inst.position + c.center - camPos) - c.radius :
               c \in Range(Models[inst.model].geometries)}
  IN CHOOSE d \in ds : \A e \in ds : d <= e

\* The frames of a frame's subtree.
RECURSIVE Subtree(_, _)
Subtree(m, f) ==
  {f} \cup UNION {Subtree(m, c) : c \in Range(At0(Models[m].frames, f).children)}

VisitsOf(src) == SelectSeq(visitLog, LAMBDA v : v.src = src)

\* Exactly the frames of F were visited for src, each once, in model m.
Traversed(src, m, F) ==
  /\ \A v \in Range(VisitsOf(src)) : v.model = m /\ v.frame \in F
  /\ \A f \in F :
       Cardinality({k \in 1..Len(VisitsOf(src)) :
                      VisitsOf(src)[k].frame = f}) = 1

NothingDrawn(src) ==
  /\ VisitsOf(src) = <<>>
  /\ \A d \in Range(drawLog) : d.src # src
  /\ \A e \in Range(chunkLog) : e.src # src

CulledTimes(src) ==
  Cardinality({k \in 1..Len(cullLog) : cullLog[k].src = src})

(***************************************************************************)
(* C1.  Every draw rejected in the opaque pass stands in the deferred      *)
(* queue exactly once until the replay, is drawn exactly once by the       *)
(* replay, and the queue is empty after the replay and so whenever         *)
(* renderWorld has returned.                                               *)
(***************************************************************************)
C1_DeferredExactlyOnce ==
  /\ pc \in {"pedestrians", "instances", "vehicles", "flush"} =>
       /\ FlushDraws = <<>>
       /\ \A dc \in Range(rejectLog) \cup Range(transparentDrawQueue) :
            Count(transparentDrawQueue, dc) = Count(rejectLog, dc)
  /\ Flushed =>
       /\ transparentDrawQueue = <<>>
       /\ \A dc \in Range(rejectLog) \cup Range(FlushCalls) :
            Count(FlushCalls, dc) = Count(rejectLog, dc)
  /\ pc = "idle" => transparentDrawQueue = <<>>

C1_Witness ==
  /\ pc = "waterHQ"
  /\ Len(rejectLog) >= 2
  /\ Len(FlushDraws) = Len(rejectLog)

(***************************************************************************)
(* C3.  A multi-clump instance that comes to the level-of-detail test:     *)
(* beyond drawDistance[1] nothing of it is drawn and it is counted culled; *)
(* beyond drawDistance[0] and up to drawDistance[1] exactly the subtree of *)
(* the root's second-to-last child is traversed; up to drawDistance[0]     *)
(* exactly the subtree of the root's last child.                           *)
(***************************************************************************)
C3_MultiClumpLOD ==
  FrameWorld =>
    \A i \in InstancesDone :
      LET inst == At0(objectInstances, i)
          src == <<"instance", i>>
          kids == At0(Models[inst.model].frames, 0).children
          far == kids[Len(kids) - 1]
          near == kids[Len(kids)]
          mindist == ClaimedMindist(i)
      IN (Reached(i) /\ inst.object.numClumps # 1) =>
           /\ mindist > inst.object.drawDistance[2] =>
                NothingDrawn(src) /\ CulledTimes(src) = 1
           /\ (/\ mindist > inst.object.drawDistance[1]
               /\ mindist <= inst.object.drawDistance[2]) =>
                /\ Traversed(src, inst.model, Subtree(inst.model, far))
                /\ CulledTimes(src) = 0
           /\ mindist <= inst.object.drawDistance[1] =>
                /\ Traversed(src, inst.model, Subtree(inst.model, near))
                /\ CulledTimes(src) = 0

\* The far branch taken at a distance equal to drawDistance[1].
C3_Witness ==
  /\ FrameWorld
  /\ \E i \in InstancesDone :
       /\ Reached(i)
       /\ At0(objectInstances, i).object.numClumps # 1
       /\ ClaimedMindist(i) = At0(objectInstances, i).object.drawDistance[2]
       /\ Len(VisitsOf(<<"instance", i>>)) = 1

C8_SameCountsTwice ==
  pc = "idle" =>
    /\ lastStats # <<>> => <<rendered, culled>> = lastStats
    /\ transparentDrawQueue = <<>>

C8_Witness ==
  /\ pc = "idle"
  /\ lastStats # <<>>
  /\ rendered > 0
  /\ culled > 0


(***************************************************************************)
(* C2.  A chunk met by renderFrame whose bounding sphere, placed at the    *)
(* accumulated position of the frame that owns it, lies entirely outside   *)
(* the frustum produces no draw: none is issued and none is queued.        *)
(***************************************************************************)
C2_OutsideChunkNotDrawn ==
  \A e \in Range(chunkLog) :
    (e.by = "renderFrame"
       /\ ~FrustumIntersects(frustum.planes, e.world, e.radius))
      => e.produced = 0

(***************************************************************************)
(* C4.  A single-clump instance that is not a LOD target and comes to the  *)
(* level-of-detail test: up to drawDistance[0] its own model is traversed; *)
(* beyond it the linked instance's model (when that model is loaded) is    *)
(* traversed up to the linked object's drawDistance[0] and the object is   *)
(* counted culled beyond that; beyond it with no linked instance nothing   *)
(* is drawn and the object is counted culled.                              *)
(***************************************************************************)
C4_SingleClumpLOD ==
  FrameWorld =>
    \A i \in InstancesDone :
      LET inst == At0(objectInstances, i)
          src == <<"instance", i>>
          mindist == ClaimedMindist(i)
          linked == inst.LODinstance # NoIndex
          lod == At0(objectInstances, inst.LODinstance)
          Whole(m) == Subtree(m, Models[m].rootFrameIdx)
      IN (Reached(i) /\ inst.object.numClumps = 1 /\ ~inst.object.LOD) =>
           /\ mindist <= inst.object.drawDistance[1] =>
                Traversed(src, inst.model, Whole(inst.model))
           /\ (/\ mindist > inst.object.drawDistance[1]
               /\ linked
               /\ mindist <= lod.object.drawDistance[1]
               /\ ModelOf(lod.model) # NULL) =>
                Traversed(src, lod.model, Whole(lod.model))
           /\ (/\ mindist > inst.object.drawDistance[1]
               /\ linked
               /\ mindist > lod.object.drawDistance[1]) =>
                NothingDrawn(src) /\ CulledTimes(src) = 1
           /\ (mindist > inst.object.drawDistance[1] /\ ~linked) =>
                NothingDrawn(src) /\ CulledTimes(src) = 1

(***************************************************************************)
(* C5.  An object whose model is not loaded is skipped: renderWorld does   *)
(* not fail on it, nothing is drawn for it, and the objects after it are   *)
(* still processed.                                                        *)
(***************************************************************************)
C5_MissingModelSkipped ==
  /\ pc # "crashed"
  /\ FrameWorld =>
       /\ \A k \in 1..Len(pedestrians) :
            ModelOf(pedestrians[k].model) = NULL =>
              NothingDrawn(<<"pedestrian", k - 1>>)
       /\ \A k \in 1..Len(objectInstances) :
            ModelOf(objectInstances[k].model) = NULL =>
              NothingDrawn(<<"instance", k - 1>>)
       /\ \A k \in 1..Len(vehicleInstances) :
            ModelOf(vehicleInstances[k].model) = NULL =>
              NothingDrawn(<<"vehicle", k - 1>>)

(***************************************************************************)
(* C6.  Every skip of an object, a chunk or a water tile for its distance  *)
(* or for the frustum adds one to the culled counter.                      *)
(***************************************************************************)
C6_EverySkipCounted ==
  culled = Len(skipLog) + Cardinality(waterLog.hqSkipped)
             + Cardinality(waterLog.lqSkipped)

(***************************************************************************)
(* C9.  A vehicle is drawn at the level of detail its distance selects:    *)
(* with the camera beyond drawDistance[0] and up to drawDistance[1] (30    *)
(* for [20, 50]) the geometries of the far child frame, the root's         *)
(* second-to-last child, are submitted and those of the near child frame,  *)
(* its last child, are not.                                                *)
(***************************************************************************)
C9_VehicleFarLOD ==
  FrameWorld =>
    \A v \in 1..Len(vehicleInstances) :
      LET inst == vehicleInstances[v]
          src == <<"vehicle", v - 1>>
          kids == At0(Models[inst.model].frames, 0).children
          far == kids[Len(kids) - 1]
          near == kids[Len(kids)]
          dist == Abs(inst.position - camPos)
          SubmittedOf(f) ==
            {e \in Range(chunkLog) :
               e.src = src /\ e.model = inst.model /\ e.frame = f
                 /\ e.produced > 0}
      IN (/\ \E k \in 1..Len(stepLog) : stepLog[k] = "vehicle"
          /\ dist > inst.drawDistance[1]
          /\ dist <= inst.drawDistance[2]) =>
           /\ SubmittedOf(near) = {}
           /\ FrustumIntersects(frustum.planes, inst.position, 0) =>
                SubmittedOf(far) # {}

(***************************************************************************)
(* C10.  A tile of the HQ grid that has water is drawn iff the distance    *)
(* from the camera to its centre, less half the HQ tile size, is below the *)
(* HQ distance; and no tile of the LQ grid is drawn over a drawn HQ tile.  *)
(***************************************************************************)
C10_WaterGrids ==
  LET halfHQ == blockHQSize \div 2
      Centre(block, k) == waterOffset + block * k + (block \div 2)
      NearEnough(t) ==
        Sq(Centre(blockHQSize, t[1]) - camPos * WaterScale)
          + Sq(Centre(blockHQSize, t[2]))
          < Sq(WATER_HQ_DISTANCE * WaterScale + halfHQ)
      \* The two tiles cover a common area.
      Overlap(h, l) ==
        \A c \in 1..2 :
          /\ h[c] * WATER_LQ_DATA_SIZE < (l[c] + 1) * WATER_HQ_DATA_SIZE
          /\ l[c] * WATER_HQ_DATA_SIZE < (h[c] + 1) * WATER_LQ_DATA_SIZE
  IN /\ (FrameWorld /\ \E k \in 1..Len(stepLog) : stepLog[k] = "waterHQ") =>
          \A t \in HQTiles :
            realWater(t[1] * WATER_HQ_DATA_SIZE + t[2]) < NO_WATER_INDEX =>
              (t \in waterLog.hq <=> NearEnough(t))
     /\ \A h \in waterLog.hq : \A l \in waterLog.lq : ~Overlap(h, l)


\* The subgeometry's material names a first texture that is not cached.
LostTexture(model, g, sg) ==
  LET geom == At0(Models[model].geometries, g)
      subgeom == At0(geom.subgeom, sg)
  IN /\ Len(geom.materials) > subgeom
     /\ Len(At0(geom.materials, subgeom).textures) > 0
     /\ At0(At0(geom.materials, subgeom).textures, 0) \notin DOMAIN Textures

\* The subgeometry indices of a chunk.
SubgeomsOf(model, g) ==
  0..(Len(At0(Models[model].geometries, g).subgeom) - 1)

\* How many members of the sequence satisfy the test.
CountIf(seq, Test(_)) == Cardinality({k \in 1..Len(seq) : Test(seq[k])})

(***************************************************************************)
(* C11.  A subgeometry whose first texture is not cached is never          *)
(* rejected; each time its chunk is handed to renderGeometry it is drawn   *)
(* in the opaque pass, with the texture binding as it was before the draw, *)
(* and every draw made is counted in rendered.                             *)
(***************************************************************************)
C11_MissingTextureDrawn ==
  /\ \A dc \in Range(rejectLog) : ~LostTexture(dc.model, dc.g, dc.sg)
  /\ \A d \in Range(drawLog) :
       LostTexture(d.model, d.g, d.sg) => d.tex = d.texWas /\ d.pass = "opaque"
  /\ \A e \in Range(chunkLog) :
       \A sg \in SubgeomsOf(e.model, e.g) :
         LostTexture(e.model, e.g, sg) =>
           CountIf(drawLog,
                   LAMBDA d : /\ d.src = e.src /\ d.model = e.model
                              /\ d.g = e.g /\ d.sg = sg
                              /\ d.pass = "opaque")
             = CountIf(chunkLog,
                       LAMBDA c : /\ c.src = e.src /\ c.model = e.model
                                  /\ c.g = e.g /\ c.passed)
  /\ rendered = Len(drawLog)

\* A draw without a cached texture made while another texture is bound.
C11_Witness ==
  \E d \in Range(drawLog) :
    /\ LostTexture(d.model, d.g, d.sg)
    /\ d.texWas \in DOMAIN Textures
    /\ d.tex = d.texWas
    /\ rendered > 1


\* n copies of x.
Copies(n, x) == [k \in 1..n |-> x]

\* The steps of a frame up to its replay.
OpaqueSteps ==
  <<"begin">> \o Copies(Len(pedestrians), "pedestrian")
    \o Copies(Len(objectInstances), "instance")
    \o Copies(Len(vehicleInstances), "vehicle")

\* The replay comes once, after the whole opaque pass and before the water
\* and the sky; no draw of the opaque pass comes after a draw of the replay.
FlushPlaced ==
  /\ Cardinality({k \in 1..Len(stepLog) : stepLog[k] = "flush"}) <= 1
  /\ (pc \in {"waterHQ", "waterLQ", "sky"} \/ (pc = "idle" /\ stepLog # <<>>))
       => Flushed
  /\ \A k \in 1..Len(stepLog) :
       /\ stepLog[k] = "flush" =>
            /\ SubSeq(stepLog, 1, k - 1) = OpaqueSteps
            /\ \A j \in (k + 1)..Len(stepLog) :
                 stepLog[j] \in {"waterHQ", "waterLQ", "sky"}
       /\ stepLog[k] \in {"waterHQ", "waterLQ", "sky"} =>
            \E j \in 1..(k - 1) : stepLog[j] = "flush"
  /\ \A j, k \in 1..Len(drawLog) :
       (j < k /\ drawLog[j].pass = "flush") => drawLog[k].pass = "flush"

\* From the replay on nothing is rejected and the queue does not grow.
NoAppendFromFlush ==
  pc \in {"flush", "waterHQ", "waterLQ", "sky"} =>
    /\ rejectLog' = rejectLog
    /\ Len(transparentDrawQueue') <= Len(transparentDrawQueue)

(***************************************************************************)
(* C12.  In a renderWorld call the deferred queue is replayed once, after  *)
(* all pedestrians, instances and vehicles have been submitted and before  *)
(* the water and the sky; during and after the replay nothing is appended  *)
(* to the queue.                                                           *)
(***************************************************************************)
C12_FlushOnceAfterOpaque == []FlushPlaced /\ [][NoAppendFromFlush]_vars

\* A returned call whose replay drew deferred entries.
C12_Witness ==
  /\ pc = "idle"
  /\ stepLog = OpaqueSteps \o <<"flush", "waterHQ", "waterLQ", "sky">>
  /\ Len(FlushDraws) >= 2


\* The hour lies strictly inside, or strictly outside, the window that runs
\* from timeOn to timeOff, past midnight when timeOn > timeOff.
InsideWindow(object, h) ==
  IF object.timeOn < object.timeOff
  THEN object.timeOn < h /\ h < object.timeOff
  ELSE h > object.timeOn \/ h < object.timeOff

OutsideWindow(object, h) ==
  IF object.timeOn < object.timeOff
  THEN h < object.timeOn \/ h > object.timeOff
  ELSE object.timeOff < h /\ h < object.timeOn

(***************************************************************************)
(* C13.  An instance with timeOn # timeOff is left out of a frame (no      *)
(* level-of-detail test, nothing traversed, drawn or counted) when the     *)
(* hour lies outside its window and is processed when the hour lies        *)
(* inside, for windows within a day and windows past midnight alike; an    *)
(* instance with timeOn = timeOff is never left out for the hour.          *)
(***************************************************************************)
C13_TimeWindow ==
  FrameWorld =>
    \A i \in InstancesDone :
      LET inst == At0(objectInstances, i)
          src == <<"instance", i>>
      IN /\ inst.object.timeOn = inst.object.timeOff => ~TimeSkipped(inst)
         /\ (inst.object.timeOn # inst.object.timeOff
               /\ InsideWindow(inst.object, hour)) => ~TimeSkipped(inst)
         /\ (inst.object.timeOn # inst.object.timeOff
               /\ OutsideWindow(inst.object, hour)) =>
              /\ TimeSkipped(inst)
              /\ NothingDrawn(src)
              /\ CulledTimes(src) = 0


\* A single-clump instance flagged as a LOD target came to the test within
\* its drawDistance[0].
NearLODTarget(i) ==
  LET inst == At0(objectInstances, i)
  IN /\ Reached(i)
     /\ inst.object.numClumps = 1
     /\ inst.object.LOD
     /\ ClaimedMindist(i) <= inst.object.drawDistance[1]

(***************************************************************************)
(* C14.  As claimed: a single-clump instance flagged as a LOD target has   *)
(* its own model traversed in every frame in which mindist is at most its  *)
(* drawDistance[0].                                                        *)
(***************************************************************************)
C14_LODTargetDrawn ==
  FrameWorld =>
    \A i \in InstancesDone :
      NearLODTarget(i) =>
        Traversed(<<"instance", i>>, At0(objectInstances, i).model,
                  Subtree(At0(objectInstances, i).model,
                          Models[At0(objectInstances, i).model].rootFrameIdx))

(***************************************************************************)
(* C14, amended.  A single-clump instance flagged as a LOD target is not   *)
(* rendered in its own right: within its drawDistance[0] its loop          *)
(* iteration traverses and draws nothing and does not count it culled.     *)
(***************************************************************************)
C14_LODTargetNotDrawn ==
  FrameWorld =>
    \A i \in InstancesDone :
      NearLODTarget(i) =>
        NothingDrawn(<<"instance", i>>) /\ CulledTimes(<<"instance", i>>) = 0

\* The LOD target is within its distance while the instance that links it
\* has drawn the target's model.
C14_Witness ==
  /\ FrameWorld
  /\ \E i \in InstancesDone :
       /\ NearLODTarget(i)
       /\ \E v \in Range(visitLog) :
            /\ v.src # <<"instance", i>>
            /\ v.model = At0(objectInstances, i).model
            /\ At0(objectInstances, v.src[2]).LODinstance = i


(***************************************************************************)
(* C15.  The deferred queue holds the rejected draws in the order of their *)
(* rejection, and the replay draws them in that order, whatever their      *)
(* distance from the camera.                                               *)
(***************************************************************************)
C15_ReplayInQueueOrder ==
  /\ pc \in {"pedestrians", "instances", "vehicles", "flush"} =>
       transparentDrawQueue = rejectLog
  /\ Flushed => FlushCalls = rejectLog

\* A replay in which a nearer entry was drawn before a farther one and, at
\* another place, a farther one before a nearer one.
C15_Witness ==
  /\ Flushed
  /\ \E j, k \in 1..Len(FlushCalls) :
       /\ j < k
       /\ Abs(FlushCalls[j].matrix - camPos) < Abs(FlushCalls[k].matrix - camPos)
  /\ \E j, k \in 1..Len(FlushCalls) :
       /\ j < k
       /\ Abs(FlushCalls[j].matrix - camPos) > Abs(FlushCalls[k].matrix - camPos)


\* The renderFrame calls made for src on frame f of model m.
VisitsOfFrame(src, m, f) ==
  {k \in 1..Len(visitLog) :
     /\ visitLog[k].src = src
     /\ visitLog[k].model = m
     /\ visitLog[k].frame = f}

\* The object renderFrame is handed for the source: instances hand none.
ObjectOf(src) ==
  IF src[1] = "pedestrian"
  THEN At0(pedestrians, src[2]).id
  ELSE IF src[1] = "vehicle"
       THEN At0(vehicleInstances, src[2]).id
       ELSE NULL

(***************************************************************************)
(* C16.  A renderFrame call on a frame the object reports hidden tests and *)
(* draws none of the frame's chunks; a call without an object finds every  *)
(* frame visible; and every call, whether its frame was hidden or its      *)
(* chunks failed the frustum test, is followed by a call on each child     *)
(* frame with the caller's accumulated matrix.                             *)
(***************************************************************************)
C16_HiddenFrames ==
  \A k \in 1..Len(visitLog) :
    LET v == visitLog[k]
        frame == At0(Models[v.model].frames, v.frame)
        object == ObjectOf(v.src)
    IN /\ v.vis = (object = NULL \/ v.frame \notin GameObjects[object].hidden)
       /\ object = NULL => v.vis
       /\ ~v.vis =>
            /\ \A e \in Range(chunkLog) :
                 ~(e.by = "renderFrame" /\ e.src = v.src /\ e.model = v.model
                     /\ e.frame = v.frame)
            /\ \A d \in Range(drawLog) :
                 (d.src = v.src /\ d.model = v.model /\ d.pass = "opaque"
                    /\ d.g \in Range(frame.geometries)) =>
                   \E e \in Range(chunkLog) :
                     /\ e.src = d.src /\ e.model = d.model /\ e.g = d.g
                     /\ e.frame # v.frame
       /\ \A c \in Range(frame.children) :
            /\ Cardinality(VisitsOfFrame(v.src, v.model, c))
                 >= Cardinality(VisitsOfFrame(v.src, v.model, v.frame))
            /\ \E j \in VisitsOfFrame(v.src, v.model, c) :
                 j > k /\ visitLog[j].matrix = v.localmatrix

\* A hidden frame whose child frame's chunk was drawn.
C16_Witness ==
  \E v \in Range(visitLog) : \E e \in Range(chunkLog) :
    /\ ~v.vis
    /\ ObjectOf(v.src) # NULL
    /\ e.src = v.src /\ e.model = v.model
    /\ e.frame \in Range(At0(Models[v.model].frames, v.frame).children)
    /\ e.passed
    /\ e.produced > 0


\* While a call runs, the planes are those of this call's camera and of the
\* far clip of this call's weather, and every frustum test made in the call
\* was decided by them.
FrustumCurrent ==
  pc # "idle" =>
    /\ frustum.far = WeatherFarClipping(hour)
    /\ frustum.planes = FrustumUpdate(camPos, WeatherFarClipping(hour))
    /\ \A e \in Range(chunkLog) :
         e.passed = FrustumIntersects(
                      FrustumUpdate(camPos, WeatherFarClipping(hour)),
                      e.tested, e.radius)

\* The planes change only in the setup of a call, ahead of the first loop.
FrustumSetOnce ==
  frustum' # frustum => pc = "idle" /\ pc' = "pedestrians" /\ chunkLog' = <<>>

(***************************************************************************)
(* C17.  In every renderWorld call the frustum planes are refreshed once,  *)
(* with the far clip of the current weather, before the first frustum test *)
(* of the call; no test of the call is decided by planes of an earlier     *)
(* call.                                                                   *)
(***************************************************************************)
C17_FrustumRefreshed == []FrustumCurrent /\ [][FrustumSetOnce]_vars

\* A test that failed and that the far clip of another hour would have let
\* pass, in a call that follows an earlier call.
C17_Witness ==
  /\ pc # "idle"
  /\ lastStats # <<>>
  /\ \E e \in Range(chunkLog) : \E h \in Hours \ {hour} :
       /\ ~e.passed
       /\ FrustumIntersects(FrustumUpdate(camPos, WeatherFarClipping(h)),
                            e.tested, e.radius)


\* The draws of the opaque pass, in order.
OpaqueDraws == SelectSeq(drawLog, LAMBDA d : d.pass = "opaque")

(***************************************************************************)
(* C18.  A draw of the opaque pass is made with this tint: for a chunk     *)
(* flagged for per-material colour, the vehicle's primary colour when the  *)
(* object is a vehicle and the material has the primary flag, else the     *)
(* vehicle's secondary colour when the object is a vehicle and the         *)
(* material has the secondary flag, else the material's colour over 255;   *)
(* for a chunk not so flagged, white, whatever the draw before it used.    *)
(***************************************************************************)
C18_OpaqueTint ==
  \A d \in Range(OpaqueDraws) :
    LET geom == At0(Models[d.model].geometries, d.g)
        subgeom == At0(geom.subgeom, d.sg)
        mat == At0(geom.materials, subgeom)
        vehicle == d.object # NULL /\ GameObjects[d.object].type = "Vehicle"
    IN IF "ModuleMaterialColor" \notin geom.flags
       THEN d.tint = White
       ELSE Len(geom.materials) > subgeom =>
              d.tint =
                IF vehicle /\ "MTF_PrimaryColour" \in mat.flags
                THEN GameObjects[d.object].colourPrimary
                ELSE IF vehicle /\ "MTF_SecondaryColour" \in mat.flags
                     THEN GameObjects[d.object].colourSecondary
                     ELSE <<Frac(mat.colour[1], 255), Frac(mat.colour[2], 255),
                            Frac(mat.colour[3], 255)>>

\* A vehicle's primary and secondary colours were used, and a white draw of
\* a chunk with per-vertex colour came right after a coloured draw.
C18_Witness ==
  /\ \E d \in Range(OpaqueDraws) :
       /\ d.object # NULL
       /\ GameObjects[d.object].type = "Vehicle"
       /\ d.tint = GameObjects[d.object].colourPrimary
  /\ \E d \in Range(OpaqueDraws) :
       /\ d.object # NULL
       /\ GameObjects[d.object].type = "Vehicle"
       /\ d.tint = GameObjects[d.object].colourSecondary
  /\ \E k \in 1..(Len(OpaqueDraws) - 1) :
       /\ OpaqueDraws[k].tint # White
       /\ OpaqueDraws[k + 1].tint = White
       /\ "ModuleMaterialColor"
            \notin At0(Models[OpaqueDraws[k + 1].model].geometries,
                       OpaqueDraws[k + 1].g).flags


\* The subgeometry has a material, the material a first texture, and that
\* texture is cached and flagged transparent.
TransparentTexture(model, g, sg) ==
  LET geom == At0(Models[model].geometries, g)
      subgeom == At0(geom.subgeom, sg)
      textures == At0(geom.materials, subgeom).textures
  IN /\ Len(geom.materials) > subgeom
     /\ Len(textures) > 0
     /\ At0(textures, 0) \in DOMAIN Textures
     /\ Textures[At0(textures, 0)].transparent

\* How often the chunk was handed to renderGeometry in this frame.
HandedOver(model, g) ==
  CountIf(chunkLog, LAMBDA e : e.model = model /\ e.g = g /\ e.passed)

(***************************************************************************)
(* C19.  A subgeometry handed to renderGeometry in the opaque pass is      *)
(* rejected and queued iff its material index is valid, the material has a *)
(* texture, and the first texture is cached and transparent; every other   *)
(* one is drawn at once and is never queued; the replay rejects nothing.   *)
(***************************************************************************)
C19_QueuedIffTransparent ==
  /\ \A model \in ModelNames :
       \A g \in 0..(Len(Models[model].geometries) - 1) :
         \A sg \in SubgeomsOf(model, g) :
           LET queued == CountIf(rejectLog,
                                 LAMBDA dc : /\ dc.model = model
                                             /\ dc.g = g /\ dc.sg = sg)
               drawn == CountIf(OpaqueDraws,
                                LAMBDA d : /\ d.model = model
                                           /\ d.g = g /\ d.sg = sg)
           IN IF TransparentTexture(model, g, sg)
              THEN queued = HandedOver(model, g) /\ drawn = 0
              ELSE queued = 0 /\ drawn = HandedOver(model, g)
  /\ pc \in {"pedestrians", "instances", "vehicles", "flush"} =>
       Len(transparentDrawQueue) = Len(rejectLog)
  /\ Flushed => Len(FlushDraws) = Len(rejectLog)

\* A replay that drew queued entries in a frame whose opaque pass drew at
\* once a subgeometry without a valid material, one without a texture and
\* one whose texture is not cached.
C19_Witness ==
  /\ Flushed
  /\ Len(FlushDraws) >= 2
  /\ \E d \in Range(OpaqueDraws) :
       LET geom == At0(Models[d.model].geometries, d.g)
       IN Len(geom.materials) <= At0(geom.subgeom, d.sg)
  /\ \E d \in Range(OpaqueDraws) :
       LET geom == At0(Models[d.model].geometries, d.g)
       IN /\ Len(geom.materials) > At0(geom.subgeom, d.sg)
          /\ At0(geom.materials, At0(geom.subgeom, d.sg)).textures = <<>>
  /\ \E d \in Range(OpaqueDraws) : LostTexture(d.model, d.g, d.sg)


\* The subgeometries handed to renderGeometry in this frame: the place of
\* the hand-over in chunkLog and the subgeometry's index.
Submitted ==
  UNION {{<<k, sg>> : sg \in SubgeomsOf(chunkLog[k].model, chunkLog[k].g)} :
           k \in {j \in 1..Len(chunkLog) : chunkLog[j].passed}}

\* rendered counts the draws issued: every subgeometry handed over that was
\* not rejected, and every rejected one once its replay has run.
RenderedCountsDraws ==
  /\ rendered = Len(drawLog)
  /\ rendered = (Cardinality(Submitted) - Len(rejectLog))
                  + (IF Flushed THEN Len(rejectLog) ELSE 0)
  /\ Len(OpaqueDraws) = Cardinality(Submitted) - Len(rejectLog)

\* The water and the sky leave the counter alone.
WaterSkyUncounted ==
  pc \in {"waterHQ", "waterLQ", "sky"} => rendered' = rendered

(***************************************************************************)
(* C20.  The rendered counter equals the number of subgeometry draws       *)
(* issued in the frame, those of the opaque pass and those of the replay:  *)
(* a deferred subgeometry is counted once, at its replay and not at its    *)
(* rejection; water tiles and the sky dome are not counted.                *)
(***************************************************************************)
C20_RenderedIsDrawsIssued == []RenderedCountsDraws /\ [][WaterSkyUncounted]_vars

\* A returned call that drew at once, replayed deferred draws and drew
\* water tiles.
C20_Witness ==
  /\ pc = "idle"
  /\ stepLog # <<>>
  /\ Len(rejectLog) >= 2
  /\ Len(OpaqueDraws) >= 2
  /\ waterLog.hq # {}
  /\ rendered = Len(OpaqueDraws) + Len(rejectLog)


\* The frames of a frame's subtree, a parent ahead of its children and the
\* children in their stored order.
RECURSIVE PreOrder(_, _)
RECURSIVE PreOrderOfAll(_, _)
PreOrder(m, f) == <<f>> \o PreOrderOfAll(m, At0(Models[m].frames, f).children)

PreOrderOfAll(m, fs) ==
  IF fs = <<>> THEN <<>> ELSE PreOrder(m, Head(fs)) \o PreOrderOfAll(m, Tail(fs))

\* The frame's own transform in a traversal made for the object: the pose
\* of the animator when the object has one, else the static transform.
OwnTransform(object, m, f) ==
  IF object # NULL /\ GameObjects[object].animator
  THEN GetFrameMatrix(object, m, f, renderAlpha)
  ELSE At0(Models[m].frames, f).transform

\* The sources for which renderFrame was called in this frame.
TraversalSources == {visitLog[k].src : k \in 1..Len(visitLog)}

(***************************************************************************)
(* C21.  A renderFrame call started at a frame ends having visited every   *)
(* frame of that frame's subtree once, a parent ahead of its children and  *)
(* the children in their stored order; each frame's accumulated matrix is  *)
(* the matrix it was handed times its own transform, and the matrix a      *)
(* child is handed is its parent's accumulated matrix.                     *)
(***************************************************************************)
C21_TraversalPreOrder ==
  \A src \in TraversalSources :
    LET vs == VisitsOf(src)
        m == vs[1].model
        object == ObjectOf(src)
    IN /\ [k \in 1..Len(vs) |-> vs[k].frame] = PreOrder(m, vs[1].frame)
       /\ Len(vs) = Cardinality(Subtree(m, vs[1].frame))
       /\ \A k \in 1..Len(vs) :
            /\ vs[k].model = m
            /\ vs[k].localmatrix
                 = MatMul(vs[k].matrix, OwnTransform(object, m, vs[k].frame))
            /\ k > 1 =>
                 \E j \in 1..(k - 1) :
                   /\ vs[k].frame
                        \in Range(At0(Models[m].frames, vs[j].frame).children)
                   /\ vs[k].matrix = vs[j].localmatrix

\* One traversal of a frame with two children, and one in which a pose set
\* a child's matrix apart from the one the static transforms give.
C21_Witness ==
  /\ \E src \in TraversalSources :
       /\ Len(VisitsOf(src)) >= 3
       /\ Len(At0(Models[VisitsOf(src)[1].model].frames,
                  VisitsOf(src)[1].frame).children) >= 2
  /\ \E src \in TraversalSources :
       /\ Len(VisitsOf(src)) >= 2
       /\ VisitsOf(src)[2].matrix
            # MatMul(VisitsOf(src)[1].matrix,
                     At0(Models[VisitsOf(src)[1].model].frames,
                         VisitsOf(src)[1].frame).transform)

=============================================================================
